---- MODULE Spec2Model ----
(***************************************************************************)
(* Model of the DeepSight-AI data pipeline:                                *)
(*   src/data/models/convert.py  - CSV cell coercion, INSERT assembly and  *)
(*                                 the conversion driver (main)            *)
(*   src/db/setup_database.py    - dialect translation and the batch       *)
(*                                 executor (execute_sql_file)             *)
(* Text is modelled as a sequence of one-character strings, so that        *)
(* parsing, escaping and formatting are computed character by character.   *)
(***************************************************************************)
EXTENDS Integers, Sequences, FiniteSets, TLC

VARIABLES
    cell, fn, ret,                  \* one coercion call: argument, function, result
    row, genpc, stmt,               \* one generate_insert_statement call
    df, pcMain, index, outfile,     \* the conversion driver main()
    file, pcExec, db, sql_content,  \* one execute_sql_file call
    statements, si, successful_statements, failed_statements, scriptResult,
    start_db,                       \* history: the database when the call was made
    pg_sql, converted, pcConvert,   \* one convert_postgres_to_sqlite call
    data_dir, schema_files, insert_files, conn, pcSetup, fileIdx,  \* setup_database
    executed, commits,              \* history: files executed, commits made
    table, method, limit_arg, result, pcQuery   \* one call of a catalog query

coerceVars == <<cell, fn, ret>>

insertVars == <<row, genpc, stmt>>

mainVars == <<df, pcMain, index, outfile>>

execVars == <<file, pcExec, db, sql_content, statements, si, successful_statements,
              failed_statements, scriptResult, start_db>>

translateVars == <<pg_sql, converted, pcConvert>>

setupVars == <<data_dir, schema_files, insert_files, conn, pcSetup, fileIdx, executed, commits>>

queryVars == <<table, method, limit_arg, result, pcQuery>>

vars == <<cell, fn, ret, row, genpc, stmt, df, pcMain, index, outfile,
          file, pcExec, db, sql_content, statements, si, successful_statements,
          failed_statements, scriptResult, start_db,
          pg_sql, converted, pcConvert,
          data_dir, schema_files, insert_files, conn, pcSetup, fileIdx, executed, commits,
          table, method, limit_arg, result, pcQuery>>

(***************************************************************************)
(* Bounds of the model.                                                    *)
(***************************************************************************)
\* longest free text cell (every string over Alphabet up to this length)
MaxLen == 3
\* longest mantissa text of a generated numeric cell
MaxMant == 3
\* most records of an input data frame
MaxRecords == 3
\* most statements of a SQL file
MaxStmts == 3

\* pieces of one translator input
MaxPieces == 2

\* rows of the table ai_models
MaxRows == 3

(***************************************************************************)
(* Text helpers (Python str methods).                                      *)
(***************************************************************************)
Quote == "'"

NullLit == <<"N", "U", "L", "L">>

\* characters str.strip() removes
Whitespace == {" ", "\t", "\n", "\r"}

DigitSeq == <<"0", "1", "2", "3", "4", "5", "6", "7", "8", "9">>

Digits == {DigitSeq[i] : i \in 1..10}

DigitVal(c) == (CHOOSE i \in 1..10 : DigitSeq[i] = c) - 1

UpperSeq == <<"A", "B", "C", "D", "E", "F", "G", "H", "I", "J", "K", "L", "M",
              "N", "O", "P", "Q", "R", "S", "T", "U", "V", "W", "X", "Y", "Z">>

LowerSeq == <<"a", "b", "c", "d", "e", "f", "g", "h", "i", "j", "k", "l", "m",
              "n", "o", "p", "q", "r", "s", "t", "u", "v", "w", "x", "y", "z">>

\* str.lower() on one character
LowerChar(c) ==
    IF \E i \in 1..26 : UpperSeq[i] = c
    THEN LowerSeq[CHOOSE i \in 1..26 : UpperSeq[i] = c]
    ELSE c

\* str.lower()
Lower(s) == [i \in 1..Len(s) |-> LowerChar(s[i])]

\* s[a..b], empty when a > b
Slice(s, a, b) == IF a > b THEN <<>> ELSE SubSeq(s, a, b)

RECURSIVE LStrip(_)
LStrip(s) ==
    IF s = <<>> THEN <<>>
    ELSE IF Head(s) \in Whitespace THEN LStrip(Tail(s)) ELSE s

RECURSIVE RStrip(_)
RStrip(s) ==
    IF s = <<>> THEN <<>>
    ELSE IF s[Len(s)] \in Whitespace THEN RStrip(Slice(s, 1, Len(s) - 1)) ELSE s

\* str.strip()
Strip(s) == RStrip(LStrip(s))

\* str.startswith(p)
StartsWith(s, p) == Len(s) >= Len(p) /\ Slice(s, 1, Len(p)) = p

\* p in s  (substring test)
Contains(s, p) ==
    \E i \in 1..(Len(s) - Len(p) + 1) : Slice(s, i, i + Len(p) - 1) = p

\* index of the first character of s that is in set cs, 0 when there is none
FirstIn(s, cs) ==
    IF \E i \in 1..Len(s) : s[i] \in cs
    THEN CHOOSE i \in 1..Len(s) : s[i] \in cs /\ \A j \in 1..(i - 1) : s[j] \notin cs
    ELSE 0

AllDigits(s) == \A i \in 1..Len(s) : s[i] \in Digits

RECURSIVE ToNat(_)
\* value of a digit string
ToNat(s) == IF s = <<>> THEN 0 ELSE 10 * ToNat(Slice(s, 1, Len(s) - 1)) + DigitVal(s[Len(s)])

RECURSIVE NatStr(_)
\* str(n) for n >= 0
NatStr(n) == IF n < 10 THEN <<DigitSeq[n + 1]>> ELSE NatStr(n \div 10) \o <<DigitSeq[(n % 10) + 1]>>

Zeros(n) == [i \in 1..n |-> "0"]

RECURSIVE StripLeadingZeros(_)
StripLeadingZeros(s) ==
    IF s = <<>> THEN <<>>
    ELSE IF Head(s) = "0" THEN StripLeadingZeros(Tail(s)) ELSE s

RECURSIVE StripTrailingZeros(_)
StripTrailingZeros(s) ==
    IF s = <<>> THEN <<>>
    ELSE IF s[Len(s)] = "0" THEN StripTrailingZeros(Slice(s, 1, Len(s) - 1)) ELSE s

\* faulty variant: quotes are not doubled
ReplaceQuote_NoDoubling(s) == s

RECURSIVE ReplaceQuote(_)
\* str.replace("'", "''")
ReplaceQuote(s) ==
    IF s = <<>> THEN <<>>
    ELSE (IF Head(s) = Quote THEN <<Quote, Quote>> ELSE <<Head(s)>>) \o ReplaceQuote(Tail(s))

RECURSIVE JoinFrom(_, _, _)
JoinFrom(parts, sep, i) ==
    IF i > Len(parts) THEN <<>>
    ELSE IF i = Len(parts) THEN parts[i]
    ELSE parts[i] \o sep \o JoinFrom(parts, sep, i + 1)

\* sep.join(parts)
Join(parts, sep) == JoinFrom(parts, sep, 1)

RECURSIVE SqlDecodeBody(_)
\* the characters between the delimiting quotes of a SQL string literal,
\* decoded: '' stands for one quote, a lone quote is not allowed
SqlDecodeBody(b) ==
    IF b = <<>> THEN [ok |-> TRUE, s |-> <<>>]
    ELSE IF Head(b) = Quote
    THEN IF Len(b) >= 2 /\ b[2] = Quote
         THEN LET r == SqlDecodeBody(Tail(Tail(b)))
              IN  [ok |-> r.ok, s |-> <<Quote>> \o r.s]
         ELSE [ok |-> FALSE, s |-> <<>>]
    ELSE LET r == SqlDecodeBody(Tail(b))
         IN  [ok |-> r.ok, s |-> <<Head(b)>> \o r.s]

\* a SQL string literal decoded by the standard rules
SqlDecode(lit) ==
    IF Len(lit) >= 2 /\ lit[1] = Quote /\ lit[Len(lit)] = Quote
    THEN SqlDecodeBody(Slice(lit, 2, Len(lit) - 1))
    ELSE [ok |-> FALSE, s |-> <<>>]

(***************************************************************************)
(* Python float values.  A finite float is kept as its shortest decimal    *)
(* form: 0.d1d2...dn * 10^decpt with d1 # 0 and dn # 0 (digits is empty    *)
(* for zero), which is what repr() prints.  Every finite value of the      *)
(* bounded input domain has at most MaxMant + 1 significant digits and a   *)
(* small exponent, so it round-trips through a C double unchanged.         *)
(***************************************************************************)
MkFloat(k, neg, digits, decpt) == [k |-> k, neg |-> neg, digits |-> digits, decpt |-> decpt]

FloatInf(neg) == MkFloat("inf", neg, <<>>, 0)

FloatNaN == MkFloat("nan", FALSE, <<>>, 0)

\* float() raised ValueError
FloatErr == MkFloat("err", FALSE, <<>>, 0)

\* the float denoted by the digit string alldigits with the decimal point
\* after its first pointpos digits; magnitudes beyond the double range
\* overflow to infinity or underflow to zero
Fin(neg, alldigits, pointpos) ==
    LET nz == StripLeadingZeros(alldigits)
        lead == Len(alldigits) - Len(nz)
        d == StripTrailingZeros(nz)
        decpt == pointpos - lead
    IN  IF d = <<>> THEN MkFloat("fin", neg, <<>>, 0)
        ELSE IF decpt > 309 THEN FloatInf(neg)
        ELSE IF decpt < -323 THEN MkFloat("fin", neg, <<>>, 0)
        ELSE MkFloat("fin", neg, d, decpt)

\* the decimal part of float(str): digits [. digits] [(e|E) [sign] digits]
ParseDecimal(neg, body) ==
    LET epos == FirstIn(body, {"e", "E"})
        mant == IF epos = 0 THEN body ELSE Slice(body, 1, epos - 1)
        expo == IF epos = 0 THEN <<>> ELSE Slice(body, epos + 1, Len(body))
        eneg == expo # <<>> /\ Head(expo) = "-"
        edig == IF expo # <<>> /\ Head(expo) \in {"+", "-"} THEN Tail(expo) ELSE expo
        ppos == FirstIn(mant, {"."})
        ip == IF ppos = 0 THEN mant ELSE Slice(mant, 1, ppos - 1)
        fp == IF ppos = 0 THEN <<>> ELSE Slice(mant, ppos + 1, Len(mant))
        e == IF eneg THEN 0 - ToNat(edig) ELSE ToNat(edig)
    IN  IF /\ AllDigits(ip) /\ AllDigits(fp) /\ Len(ip) + Len(fp) >= 1
           /\ (epos # 0 => (edig # <<>> /\ AllDigits(edig)))
        THEN Fin(neg, ip \o fp, Len(ip) + e)
        ELSE FloatErr

\* float(s) for a str s
ParseFloat(s) ==
    LET t == Strip(s)
        signed == t # <<>> /\ Head(t) \in {"+", "-"}
        neg == t # <<>> /\ Head(t) = "-"
        body == IF signed THEN Tail(t) ELSE t
        low == Lower(body)
    IN  IF low \in {<<"i", "n", "f">>, <<"i", "n", "f", "i", "n", "i", "t", "y">>}
        THEN FloatInf(neg)
        ELSE IF low = <<"n", "a", "n">> THEN FloatNaN
        ELSE ParseDecimal(neg, body)

\* float.is_integer()
IsInteger(f) == f.k = "fin" /\ Len(f.digits) <= f.decpt

\* str(int(f)) for a finite f: truncation toward zero
IntStr(f) ==
    LET ip == IF f.decpt <= 0 THEN <<>>
              ELSE IF Len(f.digits) >= f.decpt THEN Slice(f.digits, 1, f.decpt)
              ELSE f.digits \o Zeros(f.decpt - Len(f.digits))
    IN  IF ip = <<>> THEN <<"0">>
        ELSE (IF f.neg THEN <<"-">> ELSE <<>>) \o ip

\* str(f) / repr(f)
Repr(f) ==
    LET sign == IF f.neg THEN <<"-">> ELSE <<>>
        n == Len(f.digits)
        e == f.decpt - 1
        etxt == NatStr(IF e < 0 THEN 0 - e ELSE e)
    IN  IF f.k = "inf" THEN sign \o <<"i", "n", "f">>
        ELSE IF f.k = "nan" THEN <<"n", "a", "n">>
        ELSE IF n = 0 THEN sign \o <<"0", ".", "0">>
        ELSE IF f.decpt > 16 \/ f.decpt < -3
        THEN sign \o <<f.digits[1]>>
                  \o (IF n > 1 THEN <<".">> \o Tail(f.digits) ELSE <<>>)
                  \o <<"e", IF e < 0 THEN "-" ELSE "+">>
                  \o (IF Len(etxt) < 2 THEN <<"0">> ELSE <<>>) \o etxt
        ELSE IF f.decpt <= 0
        THEN sign \o <<"0", ".">> \o Zeros(0 - f.decpt) \o f.digits
        ELSE IF f.decpt >= n
        THEN sign \o f.digits \o Zeros(f.decpt - n) \o <<".", "0">>
        ELSE sign \o Slice(f.digits, 1, f.decpt) \o <<".">> \o Slice(f.digits, f.decpt + 1, n)

(***************************************************************************)
(* Cell values as pandas hands them to the coercion functions: a missing   *)
(* cell (None / NaN, pd.isna is true), a text cell, or a float cell.       *)
(***************************************************************************)
Missing == [t |-> "na", s |-> <<>>, f |-> FloatNaN]

TextCell(s) == [t |-> "text", s |-> s, f |-> FloatNaN]

NumCell(f) == [t |-> "num", s |-> <<>>, f |-> f]

\* str(value)
Str(v) == IF v.t = "text" THEN v.s ELSE IF v.t = "num" THEN Repr(v.f) ELSE <<"n", "a", "n">>

\* float(value): ValueError is the result FloatErr
ToFloat(v) == IF v.t = "num" THEN v.f ELSE IF v.t = "text" THEN ParseFloat(v.s) ELSE FloatNaN

\* the return of a coercion call: the literal text, or the exception that
\* left the function
Return(text) == [exc |-> "none", text |-> text]

Raise(exc) == [exc |-> exc, text |-> <<>>]

\* no call has returned yet
NoReturn == Return(<<>>)

\* faulty variant: the whitespace test of the guard is missing
IsNullCell_NoStrip(value) == value.t = "na" \/ (value.t = "text" /\ value.s = <<>>)

\* the guard every coercion function opens with:
\* pd.isna(value) or value == '' or str(value).strip() == ''
IsNullCell(value) ==
    \/ value.t = "na"
    \/ (value.t = "text" /\ value.s = <<>>)
    \/ Strip(Str(value)) = <<>>

escape_sql_string(value) ==
    IF IsNullCell(value) THEN Return(NullLit)
    ELSE Return(<<Quote>> \o ReplaceQuote(Str(value)) \o <<Quote>>)

\* int(num_value): OverflowError for an infinity, ValueError for NaN
IntOf(f) ==
    IF f.k = "inf" THEN Raise("OverflowError")
    ELSE IF f.k = "nan" THEN Raise("ValueError")
    ELSE Return(IntStr(f))

\* the try body of convert_to_sql_number
NumberBody(value, is_decimal) ==
    LET low == Lower(Str(value))
        num_value == ToFloat(value)
    IN  IF num_value.k = "err" THEN Raise("ValueError")
        ELSE IF Contains(low, <<"e", "+">>) \/ Contains(low, <<"e", "-">>)
        THEN IF is_decimal THEN Return(Repr(num_value))
             ELSE IF IsInteger(num_value) THEN IntOf(num_value)
             ELSE Return(Repr(num_value))
        ELSE IF is_decimal THEN Return(Repr(num_value))
             ELSE IntOf(num_value)

convert_to_sql_number(value, is_decimal) ==
    IF IsNullCell(value) THEN Return(NullLit)
    ELSE LET r == NumberBody(value, is_decimal)
         IN  IF r.exc \in {"ValueError", "TypeError"} THEN Return(NullLit) ELSE r

\* the %m directive of strptime: 1[0-2]|0[1-9]|[1-9]
MonthRe(m) ==
    \/ (Len(m) = 2 /\ m[1] = "1" /\ m[2] \in {"0", "1", "2"})
    \/ (Len(m) = 2 /\ m[1] = "0" /\ m[2] \in Digits \ {"0"})
    \/ (Len(m) = 1 /\ m[1] \in Digits \ {"0"})

\* the %d directive of strptime: 3[0-1]|[1-2]\d|0[1-9]|[1-9]| [1-9]
DayRe(d) ==
    \/ (Len(d) = 2 /\ d[1] = "3" /\ d[2] \in {"0", "1"})
    \/ (Len(d) = 2 /\ d[1] \in {"1", "2"} /\ d[2] \in Digits)
    \/ (Len(d) = 2 /\ d[1] = "0" /\ d[2] \in Digits \ {"0"})
    \/ (Len(d) = 1 /\ d[1] \in Digits \ {"0"})
    \/ (Len(d) = 2 /\ d[1] = " " /\ d[2] \in Digits \ {"0"})

IsLeap(y) == y % 4 = 0 /\ (y % 100 # 0 \/ y % 400 = 0)

DaysInMonth(y, m) ==
    IF m = 2 THEN (IF IsLeap(y) THEN 29 ELSE 28)
    ELSE IF m \in {4, 6, 9, 11} THEN 30 ELSE 31

\* datetime.strptime(date_str, '%Y-%m-%d') returns (TRUE) or raises
\* ValueError (FALSE): the text is \d\d\d\d - month - day with nothing left
\* over, and the three numbers make a date datetime accepts (year >= 1)
StrptimeOk(date_str) ==
    LET rest == Slice(date_str, 6, Len(date_str))
        dash == FirstIn(rest, {"-"})
        y == Slice(date_str, 1, 4)
        m == Slice(rest, 1, dash - 1)
        d == Slice(rest, dash + 1, Len(rest))
    IN  /\ Len(date_str) >= 5
        /\ AllDigits(y)
        /\ date_str[5] = "-"
        /\ dash # 0
        /\ MonthRe(m)
        /\ DayRe(d)
        /\ ToNat(y) >= 1
        /\ ToNat(LStrip(d)) <= DaysInMonth(ToNat(y), ToNat(m))

convert_to_sql_date(value) ==
    IF IsNullCell(value) THEN Return(NullLit)
    ELSE LET date_str == Strip(Str(value))
         IN  IF StrptimeOk(date_str)
             THEN Return(<<Quote>> \o date_str \o <<Quote>>)
             ELSE Return(NullLit)

TrueWords == {<<"t", "r", "u", "e">>, <<"1">>, <<"y", "e", "s">>, <<"t">>}

FalseWords == {<<"f", "a", "l", "s", "e">>, <<"0">>, <<"n", "o">>, <<"f">>}

convert_to_sql_boolean(value) ==
    IF IsNullCell(value) THEN Return(NullLit)
    ELSE LET str_value == Lower(Strip(Str(value)))
         IN  IF str_value \in TrueWords THEN Return(<<"T", "R", "U", "E">>)
             ELSE IF str_value \in FalseWords THEN Return(<<"F", "A", "L", "S", "E">>)
             ELSE Return(NullLit)

(***************************************************************************)
(* The bounded domain of cell values the coercion functions are applied    *)
(* to.                                                                     *)
(***************************************************************************)
Alphabet == {Quote, " ", "a", "T", "f", "1"}

\* every string over cs of length lo..hi
Strings(cs, lo, hi) == UNION {[1..n -> cs] : n \in lo..hi}

FreeTexts == Strings(Alphabet, 0, MaxLen)

Pads == {<<<<>>, <<>>>>, <<<<" ">>, <<" ">>>>}

Padded(S) == {p[1] \o s \o p[2] : p \in Pads, s \in S}

MantChars == {"0", "1", "5", "."}

ExpSuffixes ==
    {<<>>, <<"e", "1">>, <<"e", "+", "1">>, <<"e", "-", "1">>, <<"E", "+", "2">>,
     <<"e", "-", "2">>, <<"e">>, <<"e", "+">>, <<"e", "9", "9", "9">>,
     <<"e", "+", "9", "9", "9">>, <<"e", "-", "9", "9", "9">>}

NumericTexts ==
    Padded({sg \o m \o x : sg \in {<<>>, <<"-">>, <<"+">>},
                           m \in Strings(MantChars, 1, MaxMant),
                           x \in ExpSuffixes})

WordTexts ==
    Padded({<<"t", "r", "u", "e">>, <<"T", "R", "U", "E">>, <<"Y", "e", "s">>,
            <<"n", "o">>, <<"N", "o">>, <<"f", "a", "l", "s", "e">>, <<"0">>,
            <<"m", "a", "y", "b", "e">>, <<"a", "b", "c">>,
            <<"i", "n", "f">>, <<"-", "i", "n", "f">>, <<"n", "a", "n">>,
            <<"I", "n", "f", "i", "n", "i", "t", "y">>,
            <<"O", Quote, "B", "r", "i", "e", "n">>, <<"\t">>, <<"\n", "a">>})

Years == {<<"2", "0", "2", "3">>, <<"2", "0", "2", "4">>, <<"0", "0", "0", "0">>,
          <<"2", "0", "2">>, <<"2", "0", "2", "3", "1">>}

Months == {<<"0", "1">>, <<"1">>, <<"0", "2">>, <<"2">>, <<"0", "4">>, <<"1", "2">>,
           <<"1", "3">>, <<"0", "0">>, <<"0", "1", "0">>}

Days == {<<"1", "5">>, <<"5">>, <<"0", "5">>, <<" ", "5">>, <<"2", "9">>, <<"3", "0">>,
         <<"3", "1">>, <<"3", "2">>, <<"0">>, <<"0", "1", "5">>}

DateTexts ==
    {p[1] \o y \o <<sep>> \o m \o <<sep>> \o d \o p[2] :
        p \in Pads \cup {<<<<>>, <<"x">>>>}, y \in Years, sep \in {"-", "/"}, m \in Months, d \in Days}
    \cup {<<"0", "1", "/", "1", "5", "/", "2", "0", "2", "3">>,
          <<"2", "0", "2", "3", "0", "1", "1", "5">>}

\* values of float cells: 1.5, 42.0, 15000000000.0, 1e+16, 1e-05, 0.0025,
\* -2.5, 0.0, -0.0, inf, -inf
NumCells ==
    {NumCell(MkFloat("fin", FALSE, <<"1", "5">>, 1)),
     NumCell(MkFloat("fin", FALSE, <<"4", "2">>, 2)),
     NumCell(MkFloat("fin", FALSE, <<"1", "5">>, 11)),
     NumCell(MkFloat("fin", FALSE, <<"1">>, 17)),
     NumCell(MkFloat("fin", FALSE, <<"1">>, -4)),
     NumCell(MkFloat("fin", FALSE, <<"2", "5">>, -2)),
     NumCell(MkFloat("fin", TRUE, <<"2", "5">>, 1)),
     NumCell(MkFloat("fin", FALSE, <<>>, 0)),
     NumCell(MkFloat("fin", TRUE, <<>>, 0)),
     NumCell(FloatInf(FALSE)),
     NumCell(FloatInf(TRUE))}

Cells ==
    {Missing} \cup NumCells
    \cup {TextCell(s) : s \in FreeTexts \cup NumericTexts \cup WordTexts \cup DateTexts}

(***************************************************************************)
(* Dialect translator: convert_postgres_to_sqlite                          *)
(* (src/db/setup_database.py).  re.sub replaces the leftmost matches from  *)
(* left to right; a match never overlaps an earlier one.                   *)
(***************************************************************************)
\* length of the digit run of s that starts at position i
DigitRun(s, i) ==
    IF i > Len(s) \/ s[i] \notin Digits THEN 0
    ELSE LET stop == {j \in i..Len(s) : s[j] \notin Digits}
         IN  IF stop = {} THEN Len(s) - i + 1
             ELSE (CHOOSE j \in stop : \A k \in stop : j <= k) - i

\* s has the text p at position i
At(s, i, p) ==
    /\ i + Len(p) - 1 <= Len(s)
    /\ p = <<>> \/ s[i] = p[1]
    /\ Slice(s, i, i + Len(p) - 1) = p

\* COMMENT ON .*?;  (DOTALL): through the first ; after the keyword
CommentMatch(s, i) ==
    LET kw == <<"C", "O", "M", "M", "E", "N", "T", " ", "O", "N", " ">>
        semis == {j \in (i + Len(kw))..Len(s) : s[j] = ";"}
    IN  IF At(s, i, kw) /\ semis # {}
        THEN (CHOOSE j \in semis : \A k \in semis : j <= k) - i + 1
        ELSE 0

\* DECIMAL\(\d+,\d+\)
DecimalMatch(s, i) ==
    LET kw == <<"D", "E", "C", "I", "M", "A", "L", "(">>
        a == i + Len(kw)
        n1 == DigitRun(s, a)
        b == a + n1 + 1
        n2 == DigitRun(s, b)
    IN  IF At(s, i, kw) /\ n1 > 0 /\ At(s, a + n1, <<",">>) /\ n2 > 0 /\ At(s, b + n2, <<")">>)
        THEN Len(kw) + n1 + 1 + n2 + 1
        ELSE 0

\* VARCHAR\(\d+\)
VarcharMatch(s, i) ==
    LET kw == <<"V", "A", "R", "C", "H", "A", "R", "(">>
        a == i + Len(kw)
        n1 == DigitRun(s, a)
    IN  IF At(s, i, kw) /\ n1 > 0 /\ At(s, a + n1, <<")">>)
        THEN Len(kw) + n1 + 1
        ELSE 0

\* the five substitution rules, in the order of the code
RuleOrder == <<"comment", "decimal", "varchar", "bigint", "boolean">>

\* length of the match of the rule's pattern at position i of s, 0 for none
MatchLen(rule, s, i) ==
    CASE rule = "comment" -> CommentMatch(s, i)
      [] rule = "decimal" -> DecimalMatch(s, i)
      [] rule = "varchar" -> VarcharMatch(s, i)
      [] rule = "bigint" -> IF At(s, i, <<"B", "I", "G", "I", "N", "T">>) THEN 6 ELSE 0
      [] rule = "boolean" -> IF At(s, i, <<"B", "O", "O", "L", "E", "A", "N">>) THEN 7 ELSE 0

\* the replacement text of the rule
Replacement(rule) ==
    CASE rule = "comment" -> <<>>
      [] rule = "decimal" -> <<"R", "E", "A", "L">>
      [] rule = "varchar" -> <<"T", "E", "X", "T">>
      [] rule = "bigint" -> <<"I", "N", "T", "E", "G", "E", "R">>
      [] rule = "boolean" -> <<"I", "N", "T", "E", "G", "E", "R">>

RECURSIVE SubFrom(_, _, _)
SubFrom(rule, s, i) ==
    IF i > Len(s) THEN <<>>
    ELSE LET m == MatchLen(rule, s, i)
         IN  IF m > 0 THEN Replacement(rule) \o SubFrom(rule, s, i + m)
             ELSE <<s[i]>> \o SubFrom(rule, s, i + 1)

\* re.sub(pattern, replacement, sql_content) for one rule
Sub(rule, content) ==
    CHOOSE r \in {SubFrom(rule, s, 1) : s \in {content}} : TRUE

RECURSIVE ApplyRules(_, _)
\* the rules of order applied one after the other
ApplyRules(order, content) ==
    IF order = <<>> THEN content
    ELSE CHOOSE r \in {ApplyRules(Tail(order), s) : s \in {Sub(Head(order), content)}} : TRUE

RECURSIVE SplitFrom(_, _, _, _)
SplitFrom(s, sep, i, start) ==
    IF i > Len(s) THEN <<Slice(s, start, Len(s))>>
    ELSE IF s[i] = sep THEN <<Slice(s, start, i - 1)>> \o SplitFrom(s, sep, i + 1, i + 1)
    ELSE SplitFrom(s, sep, i + 1, start)

\* s.split(sep) for a one-character separator
Split(text, sep) == CHOOSE r \in {SplitFrom(s, sep, 1, 1) : s \in {text}} : TRUE

\* lines stripped, empty lines and lines starting with -- dropped, and the
\* rest joined with newlines
CleanLines(text) ==
    LET stripped == [i \in 1..Len(Split(text, "\n")) |-> Strip(Split(text, "\n")[i])]
        kept == SelectSeq(stripped, LAMBDA line : line # <<>> /\ ~StartsWith(line, <<"-", "-">>))
    IN  Join(kept, <<"\n">>)

convert_postgres_to_sqlite(content) ==
    CHOOSE r \in {CleanLines(s) : s \in {ApplyRules(RuleOrder, content)}} : TRUE

(***************************************************************************)
(* The SQLite connection, as far as the batch executor can observe it.     *)
(* Statements are texts of a small SQL with SQL's lexical structure        *)
(* (statements end with ;, string literals are quoted with ' and '' is a   *)
(* quote):   CREATE <name>        creates table <name>                     *)
(*           INSERT <name> '<v>'  appends the row <v> to table <name>      *)
(* Any other non-empty text is a syntax error.                             *)
(***************************************************************************)
IsName(s) == s # <<>> /\ \A i \in 1..Len(s) : s[i] \in {LowerSeq[k] : k \in 1..26}

\* what the engine makes of one statement text
ParseStmt(text) ==
    LET t == Strip(text)
        arg == Slice(t, 8, Len(t))
        sp == FirstIn(arg, {" "})
        name == IF sp = 0 THEN arg ELSE Slice(arg, 1, sp - 1)
        lit == SqlDecode(Strip(Slice(arg, sp + 1, Len(arg))))
        bad == [kind |-> "error", table |-> <<>>, value |-> <<>>]
    IN  IF t = <<>> THEN [kind |-> "empty", table |-> <<>>, value |-> <<>>]
        ELSE IF StartsWith(t, <<"C", "R", "E", "A", "T", "E", " ">>) /\ IsName(arg)
        THEN [kind |-> "create", table |-> arg, value |-> <<>>]
        ELSE IF StartsWith(t, <<"I", "N", "S", "E", "R", "T", " ">>) /\ sp # 0 /\ IsName(name) /\ lit.ok
        THEN [kind |-> "insert", table |-> name, value |-> lit.s]
        ELSE bad

\* a database: its tables and rows, whether a transaction is open, and the
\* state a rollback returns to
MkDb(tables, rows, inTxn, savedTables, savedRows) ==
    [tables |-> tables, rows |-> rows, inTxn |-> inTxn,
     savedTables |-> savedTables, savedRows |-> savedRows]

EmptyDb == MkDb({}, <<>>, FALSE, {}, <<>>)

\* the engine runs one statement: sqlite3.Error (ok = FALSE) leaves the
\* database as it was; outside a transaction the change is durable at once
RunStmt(d, text) ==
    LET p == ParseStmt(text)
        keep(t, r) == IF d.inTxn THEN MkDb(t, r, TRUE, d.savedTables, d.savedRows)
                      ELSE MkDb(t, r, FALSE, t, r)
    IN  CASE p.kind = "empty" -> [ok |-> TRUE, db |-> d]
          [] p.kind = "create" ->
                IF p.table \in d.tables THEN [ok |-> FALSE, db |-> d]
                ELSE [ok |-> TRUE, db |-> keep(d.tables \cup {p.table}, d.rows)]
          [] p.kind = "insert" ->
                IF p.table \notin d.tables THEN [ok |-> FALSE, db |-> d]
                ELSE [ok |-> TRUE,
                      db |-> keep(d.tables, Append(d.rows, [table |-> p.table, value |-> p.value]))]
          [] OTHER -> [ok |-> FALSE, db |-> d]

\* conn.commit()
Commit(d) == MkDb(d.tables, d.rows, FALSE, d.tables, d.rows)

\* conn.rollback()
Rollback(d) == MkDb(d.savedTables, d.savedRows, FALSE, d.savedTables, d.savedRows)

\* cursor.execute(statement): the sqlite3 module opens a transaction before
\* an INSERT that can run when none is open
CursorExecute(d, text) ==
    LET p == ParseStmt(text)
        begun == IF p.kind = "insert" /\ p.table \in d.tables /\ ~d.inTxn
                 THEN MkDb(d.tables, d.rows, TRUE, d.tables, d.rows)
                 ELSE d
    IN  RunStmt(begun, text)

RECURSIVE ScriptSplitFrom(_, _, _, _)
\* the statements of a script as the engine finds them: cut at the ;
\* that are outside string literals
ScriptSplitFrom(s, i, start, inLit) ==
    IF i > Len(s) THEN <<Slice(s, start, Len(s))>>
    ELSE IF s[i] = Quote THEN ScriptSplitFrom(s, i + 1, start, ~inLit)
    ELSE IF s[i] = ";" /\ ~inLit
    THEN <<Slice(s, start, i - 1)>> \o ScriptSplitFrom(s, i + 1, i + 1, FALSE)
    ELSE ScriptSplitFrom(s, i + 1, start, inLit)

ScriptStatements(text) == CHOOSE r \in {ScriptSplitFrom(s, 1, 1, FALSE) : s \in {text}} : TRUE

RECURSIVE RunScriptFrom(_, _, _)
RunScriptFrom(d, stmts, i) ==
    IF i > Len(stmts) THEN [ok |-> TRUE, db |-> d]
    ELSE CHOOSE res \in
            {IF r.ok THEN RunScriptFrom(r.db, stmts, i + 1) ELSE [ok |-> FALSE, db |-> r.db] :
                r \in {RunStmt(d, stmts[i])}} : TRUE

\* cursor.executescript(sql_script): a pending transaction is committed,
\* then the statements run one by one outside any transaction until the
\* first one fails
ExecuteScript(d, text) ==
    CHOOSE res \in {RunScriptFrom(Commit(d), stmts, 1) : stmts \in {ScriptStatements(text)}} : TRUE

(***************************************************************************)
(* Batch executor: execute_sql_file (src/db/setup_database.py).            *)
(***************************************************************************)
\* the statements SQL files are made of
StmtPool ==
    {<<"C", "R", "E", "A", "T", "E", " ", "t">>, <<"C", "R", "E", "A", "T", "E", " ", "u">>, <<"I", "N", "S", "E", "R", "T", " ", "t", " ", Quote, "a", Quote>>, <<"I", "N", "S", "E", "R", "T", " ", "t", " ", Quote, "b", Quote>>,
     <<"I", "N", "S", "E", "R", "T", " ", "t", " ", Quote, "a", ";", "b", Quote>>, <<"X">>}

RECURSIVE Concat(_)
Concat(parts) == IF parts = <<>> THEN <<>> ELSE Head(parts) \o Concat(Tail(parts))

\* the text of a file: each statement on its own line, ended by ; and,
\* when commented, between a header comment and an end comment as the
\* conversion driver writes them
FileText(stmts, commented) ==
    (IF commented THEN <<"-", "-", " ", "h", "\n", "\n">> ELSE <<>>)
    \o Concat([i \in 1..Len(stmts) |-> stmts[i] \o <<";", "\n">>])
    \o (IF commented THEN <<"\n", "-", "-", " ", "E", "n", "d", "\n">> ELSE <<>>)

\* a SQL file: isInsert says whether its path ends with _insert.sql,
\* readable whether open() and read() succeed
MkFile(isInsert, readable, stmts, commented) ==
    [isInsert |-> isInsert, readable |-> readable, stmts |-> stmts,
     content |-> FileText(stmts, commented)]

Files ==
    {MkFile(k, TRUE, s, c) : k \in BOOLEAN, c \in BOOLEAN,
                             s \in UNION {[1..n -> StmtPool] : n \in 0..MaxStmts}}
    \cup {MkFile(k, FALSE, <<>>, FALSE) : k \in BOOLEAN}

\* the database a file is executed against: empty, with table t, or with
\* table t and an uncommitted row of an earlier file
StartDbs ==
    {EmptyDb,
     MkDb({<<"t">>}, <<>>, FALSE, {<<"t">>}, <<>>),
     MkDb({<<"t">>}, <<[table |-> <<"t">>, value |-> <<"z">>]>>, TRUE, {<<"t">>}, <<>>)}

\* faulty variant: every file is tried as one script
UsesScript_Always(f) == TRUE

\* file_path.endswith('_insert.sql')
UsesScript(f) == f.isInsert

\* if statement and not statement.startswith('--')
Executable(statement) == statement # <<>> /\ ~StartsWith(statement, <<"-", "-">>)

IdleTranslate ==
    /\ pg_sql = <<>>
    /\ converted = <<>>
    /\ pcConvert = "idle"

IdleSetup ==
    /\ data_dir = {}
    /\ schema_files = <<>>
    /\ insert_files = <<>>
    /\ conn = EmptyDb
    /\ pcSetup = "idle"
    /\ fileIdx = 0
    /\ executed = <<>>
    /\ commits = 0

IdleQuery ==
    /\ table = <<>>
    /\ method = "none"
    /\ limit_arg = [given |-> FALSE, value |-> 0]
    /\ result = [exc |-> "none", rows |-> 0]
    /\ pcQuery = "idle"

IdleTools == IdleTranslate /\ IdleSetup /\ IdleQuery

IdleExec ==
    /\ file = MkFile(FALSE, FALSE, <<>>, FALSE)
    /\ pcExec = "idle"
    /\ db = EmptyDb
    /\ start_db = EmptyDb
    /\ sql_content = <<>>
    /\ statements = <<>>
    /\ si = 0
    /\ successful_statements = 0
    /\ failed_statements = 0
    /\ scriptResult = "none"

(***************************************************************************)
(* Record-to-statement assembly: generate_insert_statement.                *)
(***************************************************************************)
\* the columns in the order of the values.append calls, each with the
\* coercion applied to it
FieldSpec ==
    <<
     [col |-> "Model", kind |-> "string"],
     [col |-> "Organization", kind |-> "string"],
     [col |-> "Publication date", kind |-> "date"],
     [col |-> "Domain", kind |-> "string"],
     [col |-> "Task", kind |-> "string"],
     [col |-> "Parameters", kind |-> "integer"],
     [col |-> "Parameters notes", kind |-> "string"],
     [col |-> "Training compute (FLOP)", kind |-> "decimal"],
     [col |-> "Training compute notes", kind |-> "string"],
     [col |-> "Training dataset", kind |-> "string"],
     [col |-> "Training dataset size (datapoints)", kind |-> "integer"],
     [col |-> "Dataset size notes", kind |-> "string"],
     [col |-> "Confidence", kind |-> "string"],
     [col |-> "Link", kind |-> "string"],
     [col |-> "Reference", kind |-> "string"],
     [col |-> "Citations", kind |-> "integer"],
     [col |-> "Authors", kind |-> "string"],
     [col |-> "Abstract", kind |-> "string"],
     [col |-> "Organization categorization", kind |-> "string"],
     [col |-> "Country (of organization)", kind |-> "string"],
     [col |-> "Notability criteria", kind |-> "string"],
     [col |-> "Notability criteria notes", kind |-> "string"],
     [col |-> "Epochs", kind |-> "decimal"],
     [col |-> "Training time (hours)", kind |-> "decimal"],
     [col |-> "Training time notes", kind |-> "string"],
     [col |-> "Training hardware", kind |-> "string"],
     [col |-> "Hardware quantity", kind |-> "decimal"],
     [col |-> "Hardware utilization", kind |-> "decimal"],
     [col |-> "Training compute cost (2023 USD)", kind |-> "decimal"],
     [col |-> "Compute cost notes", kind |-> "string"],
     [col |-> "Training power draw (W)", kind |-> "integer"],
     [col |-> "Base model", kind |-> "string"],
     [col |-> "Finetune compute (FLOP)", kind |-> "decimal"],
     [col |-> "Finetune compute notes", kind |-> "string"],
     [col |-> "Batch size", kind |-> "integer"],
     [col |-> "Batch size notes", kind |-> "string"],
     [col |-> "Model accessibility", kind |-> "string"],
     [col |-> "Training code accessibility", kind |-> "string"],
     [col |-> "Inference code accessibility", kind |-> "string"],
     [col |-> "Accessibility notes", kind |-> "string"],
     [col |-> "Numerical format", kind |-> "string"],
     [col |-> "Frontier model", kind |-> "boolean"]
    >>

ColumnNames == {FieldSpec[i].col : i \in 1..Len(FieldSpec)}

\* row.get(name): None when the row has no such column
RowGet(r, name) == IF name \in DOMAIN r THEN r[name] ELSE Missing

\* the coercion call made for a field of the given kind
Coerce(kind, value) ==
    CASE kind = "string" -> escape_sql_string(value)
      [] kind = "integer" -> convert_to_sql_number(value, FALSE)
      [] kind = "decimal" -> convert_to_sql_number(value, TRUE)
      [] kind = "date" -> convert_to_sql_date(value)
      [] kind = "boolean" -> convert_to_sql_boolean(value)

InsertPrefix ==
    <<"I", "N", "S", "E", "R", "T", " ", "I", "N", "T", "O", " ", "a", "i", "_", "m",
      "o", "d", "e", "l", "s", " ", "V", "A", "L", "U", "E", "S", " ", "(">>

InsertSuffix == <<")", ";">>

\* the values list: one coercion result per field, in field order
FieldValues(r) ==
    [i \in 1..Len(FieldSpec) |-> Coerce(FieldSpec[i].kind, RowGet(r, FieldSpec[i].col))]

\* the statement text built from the finished values list
InsertSql(values) ==
    InsertPrefix \o Join([i \in 1..Len(values) |-> values[i].text], <<",", " ">>) \o InsertSuffix

\* the first exception raised while the values are appended leaves the
\* function; otherwise the joined statement is returned
Assemble(values) ==
    LET raising == {i \in 1..Len(values) : values[i].exc # "none"}
    IN  IF raising # {}
        THEN Raise(values[CHOOSE i \in raising : \A j \in raising : i <= j].exc)
        ELSE Return(InsertSql(values))

\* (the values list is built once, then assembled)
generate_insert_statement(r) ==
    CHOOSE s \in {Assemble(values) : values \in {FieldValues(r)}} : TRUE

\* a typical cell of each kind
BaseCell(kind) ==
    CASE kind = "string" -> TextCell(<<"a">>)
      [] kind = "integer" -> NumCell(MkFloat("fin", FALSE, <<"4", "2">>, 2))
      [] kind = "decimal" -> NumCell(MkFloat("fin", FALSE, <<"1", "5">>, 1))
      [] kind = "date" -> TextCell(<<"2", "0", "2", "3", "-", "0", "1", "-", "1", "5">>)
      [] kind = "boolean" -> TextCell(<<"Y", "e", "s">>)

BaseRow ==
    [c \in ColumnNames |->
        BaseCell(FieldSpec[CHOOSE i \in 1..Len(FieldSpec) : FieldSpec[i].col = c].kind)]

\* marks a column the row does not have
Absent == [t |-> "absent", s |-> <<>>, f |-> FloatNaN]

Variations ==
    {Absent, Missing, NumCell(FloatInf(FALSE)),
     NumCell(MkFloat("fin", FALSE, <<"1", "5">>, 1)),
     TextCell(<<>>), TextCell(<<" ">>),
     TextCell(<<"O", Quote, "B", "r", "i", "e", "n">>),
     TextCell(<<"a", Quote, ",", " ", Quote, "b">>),
     TextCell(<<"1", ".", "5", "e", "+", "1", "0">>),
     TextCell(<<"a", "b", "c">>),
     TextCell(<<"2", "0", "2", "3", "-", "1", "3", "-", "0", "1">>),
     TextCell(<<"N", "o">>)}

\* the row r with the cell of field i replaced (or its column removed)
Vary(r, i, v) ==
    IF v = Absent
    THEN [c \in (DOMAIN r) \ {FieldSpec[i].col} |-> r[c]]
    ELSE [r EXCEPT ![FieldSpec[i].col] = v]

\* the rows generate_insert_statement is applied to: the base row with one
\* field, or two neighbouring fields, varied
Rows ==
    {BaseRow}
    \cup {Vary(BaseRow, i, v) : i \in 1..Len(FieldSpec), v \in Variations}
    \cup {Vary(Vary(BaseRow, i, v), i + 1, w) :
            i \in 1..(Len(FieldSpec) - 1), v \in Variations, w \in Variations}

IdleMain ==
    /\ df = <<>>
    /\ pcMain = "idle"
    /\ index = 0
    /\ outfile = <<>>

IdleInsert ==
    /\ row = BaseRow
    /\ genpc = "idle"
    /\ stmt = NoReturn

IdleCoerce ==
    /\ cell = Missing
    /\ fn = "idle"
    /\ ret = NoReturn

InitInsert ==
    /\ row \in Rows
    /\ genpc = "start"
    /\ stmt = NoReturn
    /\ IdleCoerce
    /\ IdleMain
    /\ IdleExec
    /\ IdleTools

GenerateInsertStatement ==
    /\ genpc = "start"
    /\ genpc' = "done"
    /\ stmt' = generate_insert_statement(row)
    /\ UNCHANGED <<row, coerceVars, mainVars, execVars,
                   translateVars, setupVars, queryVars>>

NextInsert == GenerateInsertStatement

SpecInsert == InitInsert /\ [][NextInsert]_vars

(***************************************************************************)
(* The conversion driver: main().                                          *)
(***************************************************************************)
Line(kind, note, text, n) == [kind |-> kind, note |-> note, text |-> text, n |-> n]

\* the four header writes (the last one ends with an empty line)
Header(n) ==
    <<Line("comment", "AI Models Data Import", <<>>, 0),
      Line("comment", "Generated INSERT statements from notable_ai_models.csv", <<>>, 0),
      Line("total", "Total records", <<>>, n),
      Line("generated", "Generated on", <<>>, 0),
      Line("blank", "", <<>>, 0)>>

SqlLine(text) == Line("sql", "", text, 0)

Trailer ==
    <<Line("blank", "", <<>>, 0),
      Line("comment", "End of INSERT statements", <<>>, 0)>>

\* faulty variant: a failing record ends the loop
IndexAfterError_Break(i, n) == n + 1

\* except Exception: ... continue  -- the loop goes on with the next record
IndexAfterError(i, n) == i + 1

DriverRows ==
    {BaseRow,
     Vary(BaseRow, 2, TextCell(<<"O", Quote, "B", "r", "i", "e", "n">>)),
     Vary(BaseRow, 6, Missing),
     Vary(BaseRow, 6, NumCell(FloatInf(FALSE)))}

DataFrames == UNION {[1..n -> DriverRows] : n \in 0..MaxRecords}

InitMain ==
    /\ df \in DataFrames
    /\ pcMain = "start"
    /\ index = 0
    /\ outfile = <<>>
    /\ IdleCoerce
    /\ IdleInsert
    /\ IdleExec
    /\ IdleTools

\* pd.read_csv or open(output_file, 'w') fails: sys.exit(1)
MainExit ==
    /\ pcMain = "start"
    /\ pcMain' = "exit1"
    /\ UNCHANGED <<df, index, outfile, coerceVars, insertVars, execVars,
                   translateVars, setupVars, queryVars>>

\* the CSV is read, the output file is opened and the header is written
MainWriteHeader ==
    /\ pcMain = "start"
    /\ outfile' = Header(Len(df))
    /\ index' = 1
    /\ pcMain' = "loop"
    /\ UNCHANGED <<df, coerceVars, insertVars, execVars,
                   translateVars, setupVars, queryVars>>

\* one iteration of the loop over df.iterrows()
MainRecord ==
    /\ pcMain = "loop"
    /\ index <= Len(df)
    /\ \E r \in {generate_insert_statement(df[index])} :
           IF r.exc = "none"
           THEN /\ outfile' = Append(outfile, SqlLine(r.text))
                /\ index' = index + 1
           ELSE /\ outfile' = outfile
                /\ index' = IndexAfterError(index, Len(df))
    /\ UNCHANGED <<df, pcMain, coerceVars, insertVars, execVars,
                   translateVars, setupVars, queryVars>>

\* after the loop: the trailing comment is written and the file is closed
MainFinish ==
    /\ pcMain = "loop"
    /\ index > Len(df)
    /\ outfile' = outfile \o Trailer
    /\ pcMain' = "done"
    /\ UNCHANGED <<df, index, coerceVars, insertVars, execVars,
                   translateVars, setupVars, queryVars>>

NextMain ==
    \/ MainExit
    \/ MainWriteHeader
    \/ MainRecord
    \/ MainFinish

SpecMain == InitMain /\ [][NextMain]_vars

(***************************************************************************)
(* Specification of the batch executor: one execute_sql_file call.         *)
(***************************************************************************)
InitExec ==
    /\ file \in Files
    /\ db \in StartDbs
    /\ start_db = db
    /\ pcExec = "not_started"
    /\ sql_content = <<>>
    /\ statements = <<>>
    /\ si = 0
    /\ successful_statements = 0
    /\ failed_statements = 0
    /\ scriptResult = "none"
    /\ IdleCoerce
    /\ IdleInsert
    /\ IdleMain
    /\ IdleTools

\* faulty variant: the error of open() or read() is logged and not re-raised
ExecOpenFails_NoReraise ==
    /\ pcExec = "not_started"
    /\ ~file.readable
    /\ pcExec' = "partial"
    /\ UNCHANGED <<file, start_db, db, sql_content, statements, si, successful_statements,
                   failed_statements, scriptResult, coerceVars, insertVars, mainVars,
                   translateVars, setupVars, queryVars>>

\* open() or read() fails: the error is logged and re-raised
ExecOpenFails ==
    /\ pcExec = "not_started"
    /\ ~file.readable
    /\ pcExec' = "raised"
    /\ UNCHANGED <<file, start_db, db, sql_content, statements, si, successful_statements,
                   failed_statements, scriptResult, coerceVars, insertVars, mainVars,
                   translateVars, setupVars, queryVars>>

\* the file is read and translated; a schema file goes straight to the
\* statement-by-statement pass
ExecRead ==
    /\ pcExec = "not_started"
    /\ file.readable
    /\ \E translated \in {convert_postgres_to_sqlite(file.content)} :
          /\ sql_content' = translated
          /\ IF UsesScript(file)
             THEN /\ pcExec' = "script"
                  /\ UNCHANGED <<statements, si>>
             ELSE /\ pcExec' = "statements"
                  /\ statements' = Split(translated, ";")
                  /\ si' = 1
    /\ UNCHANGED <<file, start_db, db, successful_statements, failed_statements, scriptResult,
                   coerceVars, insertVars, mainVars,
                   translateVars, setupVars, queryVars>>

\* cursor.executescript(sql_content): return on success, fall back to the
\* statement-by-statement pass on sqlite3.Error
ExecScript ==
    /\ pcExec = "script"
    /\ \E r \in {ExecuteScript(db, sql_content)} :
          /\ db' = r.db
          /\ IF r.ok
             THEN /\ scriptResult' = "ok"
                  /\ pcExec' = "committed"
                  /\ UNCHANGED <<statements, si>>
             ELSE /\ scriptResult' = "failed"
                  /\ pcExec' = "statements"
                  /\ statements' = Split(sql_content, ";")
                  /\ si' = 1
    /\ UNCHANGED <<file, start_db, sql_content, successful_statements, failed_statements,
                   coerceVars, insertVars, mainVars,
                   translateVars, setupVars, queryVars>>

\* one iteration of the loop over the split pieces
ExecStatement ==
    /\ pcExec = "statements"
    /\ si <= Len(statements)
    /\ \E statement \in {Strip(statements[si])} :
          IF Executable(statement)
          THEN \E r \in {CursorExecute(db, statement)} :
                  /\ db' = r.db
                  /\ successful_statements' = successful_statements + (IF r.ok THEN 1 ELSE 0)
                  /\ failed_statements' = failed_statements + (IF r.ok THEN 0 ELSE 1)
          ELSE UNCHANGED <<db, successful_statements, failed_statements>>
    /\ si' = si + 1
    /\ UNCHANGED <<file, start_db, pcExec, sql_content, statements, scriptResult,
                   coerceVars, insertVars, mainVars,
                   translateVars, setupVars, queryVars>>

\* the loop is over: the counts are logged and the function returns
ExecReturn ==
    /\ pcExec = "statements"
    /\ si > Len(statements)
    /\ pcExec' = "partial"
    /\ UNCHANGED <<file, start_db, db, sql_content, statements, si, successful_statements,
                   failed_statements, scriptResult, coerceVars, insertVars, mainVars,
                   translateVars, setupVars, queryVars>>

NextExec ==
    \/ ExecOpenFails
    \/ ExecRead
    \/ ExecScript
    \/ ExecStatement
    \/ ExecReturn

SpecExec == InitExec /\ [][NextExec]_vars

(***************************************************************************)
(* Specification of the coercion functions: a cell value is drawn, then    *)
(* one coercion function is applied to it.                                 *)
(***************************************************************************)
InitCoerce ==
    /\ cell \in Cells
    /\ fn = "none"
    /\ ret = NoReturn
    /\ IdleInsert
    /\ IdleMain
    /\ IdleExec
    /\ IdleTools

CallEscapeSqlString ==
    /\ fn = "none"
    /\ fn' = "string"
    /\ ret' = escape_sql_string(cell)
    /\ UNCHANGED <<cell, insertVars, mainVars, execVars,
                   translateVars, setupVars, queryVars>>

CallConvertToSqlNumber ==
    /\ fn = "none"
    /\ \E is_decimal \in BOOLEAN :
          /\ fn' = (IF is_decimal THEN "decimal" ELSE "integer")
          /\ ret' = convert_to_sql_number(cell, is_decimal)
    /\ UNCHANGED <<cell, insertVars, mainVars, execVars,
                   translateVars, setupVars, queryVars>>

CallConvertToSqlDate ==
    /\ fn = "none"
    /\ fn' = "date"
    /\ ret' = convert_to_sql_date(cell)
    /\ UNCHANGED <<cell, insertVars, mainVars, execVars,
                   translateVars, setupVars, queryVars>>

CallConvertToSqlBoolean ==
    /\ fn = "none"
    /\ fn' = "boolean"
    /\ ret' = convert_to_sql_boolean(cell)
    /\ UNCHANGED <<cell, insertVars, mainVars, execVars,
                   translateVars, setupVars, queryVars>>

NextCoerce ==
    \/ CallEscapeSqlString
    \/ CallConvertToSqlNumber
    \/ CallConvertToSqlDate
    \/ CallConvertToSqlBoolean

SpecCoerce == InitCoerce /\ [][NextCoerce]_vars

(***************************************************************************)
(* Claims about the coercion functions (checked under SpecCoerce).         *)
(***************************************************************************)
\* a cell that is missing, empty or whitespace-only
BlankValue(v) == v.t = "na" \/ \A i \in 1..Len(Str(v)) : Str(v)[i] \in Whitespace

\* optional minus sign followed by digits only
IsIntegerText(t) ==
    LET d == IF t # <<>> /\ Head(t) = "-" THEN Tail(t) ELSE t
    IN  d # <<>> /\ AllDigits(d)

\* a finite float with a non-zero fractional part
HasFraction(f) == f.k = "fin" /\ Len(f.digits) > f.decpt

QuoteCount(s) == Cardinality({i \in 1..Len(s) : s[i] = Quote})

\* text of the exact shape YYYY-MM-DD that names a real calendar date
IsIsoDate(s) ==
    /\ Len(s) = 10
    /\ \A i \in {1, 2, 3, 4, 6, 7, 9, 10} : s[i] \in Digits
    /\ s[5] = "-" /\ s[8] = "-"
    /\ ToNat(Slice(s, 1, 4)) >= 1
    /\ ToNat(Slice(s, 6, 7)) \in 1..12
    /\ ToNat(Slice(s, 9, 10)) \in 1..DaysInMonth(ToNat(Slice(s, 1, 4)), ToNat(Slice(s, 6, 7)))

\* C1: every coercion function is total: whatever the cell value, the call
\* returns (a literal or NULL) and no exception leaves the function; a text
\* that float() rejects yields NULL.
C1_CoercionNeverRaises ==
    fn # "none" =>
        /\ ret.exc = "none"
        /\ (fn \in {"integer", "decimal"} /\ ToFloat(cell).k = "err" => ret.text = NullLit)

\* C2: in integer mode, for every input that parses as a finite number, the
\* result is integer text only if the value is an integer; a value with a
\* fractional part keeps its decimal representation.
C2_IntegerModeKeepsFraction ==
    (fn = "integer" /\ ~BlankValue(cell) /\ ToFloat(cell).k = "fin") =>
        /\ ret.exc = "none"
        /\ (IsIntegerText(ret.text) => ~HasFraction(ToFloat(cell)))
        /\ (HasFraction(ToFloat(cell)) => ret.text = Repr(ToFloat(cell)))

\* C8: for every non-blank value the string literal is the value between
\* quotes with each quote doubled and nothing else changed, and decoding the
\* literal by the SQL rules gives the value back.
C8_StringRoundTrip ==
    (fn = "string" /\ ~BlankValue(cell)) =>
        /\ ret.exc = "none"
        /\ Len(ret.text) = Len(Str(cell)) + QuoteCount(Str(cell)) + 2
        /\ SqlDecode(ret.text) = [ok |-> TRUE, s |-> Str(cell)]

C8_Witness ==
    /\ fn = "string"
    /\ cell.t = "text"
    /\ QuoteCount(cell.s) >= 2
    /\ ret.text # NullLit
    /\ Len(ret.text) = Len(cell.s) + QuoteCount(cell.s) + 2

\* C9: date coercion returns a non-NULL literal only for a value that is
\* exactly YYYY-MM-DD and a real calendar date, and then the literal is the
\* input value between quotes.
C9_DateOnlyExactIso ==
    (fn = "date" /\ ret.text # NullLit) =>
        /\ cell.t = "text"
        /\ IsIsoDate(cell.s)
        /\ ret.text = <<Quote>> \o cell.s \o <<Quote>>

\* C10: for every cell value that is empty, whitespace-only or missing, each
\* of the coercion functions (string, number in both modes, date, boolean)
\* returns the NULL literal.
C10_BlankIsNull ==
    (fn # "none" /\ BlankValue(cell)) => ret = Return(NullLit)

C10_Witness ==
    /\ fn = "string"
    /\ cell.t = "text"
    /\ Len(cell.s) >= 2
    /\ BlankValue(cell)
    /\ ret = Return(NullLit)

(***************************************************************************)
(* Claims about statement assembly (SpecInsert) and the driver (SpecMain). *)
(***************************************************************************)
\* the values of an INSERT INTO ai_models VALUES (...); statement, read back
\* from its text: the list between the parentheses is split at the commas
\* that are outside string literals and each piece is trimmed
SqlValues(text) ==
    LET body == Slice(text, Len(InsertPrefix) + 1, Len(text) - Len(InsertSuffix))
        outside(i) == Cardinality({j \in 1..(i - 1) : body[j] = Quote}) % 2 = 0
        commas == {i \in 1..Len(body) : body[i] = "," /\ outside(i)}
        n == Cardinality(commas) + 1
        cut(k) == IF k = 0 THEN 0
                  ELSE IF k = n THEN Len(body) + 1
                  ELSE CHOOSE i \in commas : Cardinality({j \in commas : j < i}) = k - 1
    IN  IF StartsWith(text, InsertPrefix)
           /\ Slice(text, Len(text) - Len(InsertSuffix) + 1, Len(text)) = InsertSuffix
        THEN [k \in 1..n |-> Strip(Slice(body, cut(k - 1) + 1, cut(k) - 1))]
        ELSE <<>>

\* C7: for every record generate_insert_statement produces one INSERT INTO
\* ai_models VALUES (...) statement with 42 values in the fixed field order;
\* a missing or absent cell gives NULL at its own position and the values
\* of the other fields stay where they are.
C7_FixedOrderValues ==
    genpc = "done" =>
        /\ stmt.exc = "none"
        /\ LET vals == SqlValues(stmt.text)
           IN  /\ Len(vals) = 42
               /\ \A i \in 1..Len(FieldSpec) :
                    LET c == RowGet(row, FieldSpec[i].col)
                    IN  /\ vals[i] = Coerce(FieldSpec[i].kind, c).text
                        /\ (c.t = "na" => vals[i] = NullLit)

\* a record whose assembly raises
Raises(r) == \E i \in 1..Len(FieldSpec) : FieldValues(r)[i].exc # "none"

\* the texts of the statement lines of the output, in file order
SqlTexts(lines) ==
    LET sql == SelectSeq(lines, LAMBDA l : l.kind = "sql")
    IN  [i \in 1..Len(sql) |-> sql[i].text]

\* the statements of the records that can be converted, in input order
Converted(frame) ==
    LET good == SelectSeq(frame, LAMBDA r : ~Raises(r))
    IN  [i \in 1..Len(good) |-> InsertSql(FieldValues(good[i]))]

\* C5: a failure while processing one record does not abort the batch: the
\* failing record is skipped and every other record, also every later one,
\* is converted and written, in input order.
C5_FailingRecordSkipped ==
    pcMain = "done" =>
        /\ index = Len(df) + 1
        /\ SqlTexts(outfile) = Converted(df)

C5_Witness ==
    /\ pcMain = "done"
    /\ \E i \in 1..Len(df) : \E j \in (i + 1)..Len(df) : Raises(df[i]) /\ ~Raises(df[j])
    /\ Len(SqlTexts(outfile)) >= 1
    /\ Len(SqlTexts(outfile)) < Len(df)

\* C6: for every input of N records the output is the header, then exactly
\* N INSERT statements, one per record in input order, then the end
\* comment; the record count of the header is the number of INSERT
\* statements in the file.
C6_HeaderCountMatches ==
    pcMain = "done" =>
        /\ Len(SqlTexts(outfile)) = Len(df)
        /\ outfile = Header(Len(df))
                     \o [i \in 1..Len(df) |-> SqlLine(InsertSql(FieldValues(df[i])))]
                     \o Trailer
        /\ \A i \in 1..Len(outfile) :
              outfile[i].kind = "total" => outfile[i].n = Len(SqlTexts(outfile))

(***************************************************************************)
(* Claims about the batch executor (checked under SpecExec).               *)
(***************************************************************************)
\* a statement the engine rejects whatever the database holds
Malformed(text) == ParseStmt(text).kind = "error"

MalformedCount(stmts) == Cardinality({i \in 1..Len(stmts) : Malformed(stmts[i])})

\* the effect of a well-formed statement is in the database
EffectIn(d, text) ==
    LET p == ParseStmt(text)
    IN  CASE p.kind = "create" -> p.table \in d.tables
          [] p.kind = "insert" ->
                \E i \in 1..Len(d.rows) : d.rows[i] = [table |-> p.table, value |-> p.value]
          [] OTHER -> TRUE

RECURSIVE FailuresOnce(_, _, _)
\* how many of the statements fail when each is run exactly once, in order
FailuresOnce(d, stmts, i) ==
    IF i > Len(stmts) THEN 0
    ELSE LET r == RunStmt(d, stmts[i])
         IN  (IF r.ok THEN 0 ELSE 1) + FailuresOnce(r.db, stmts, i + 1)

\* the only statement that fails when the file's statements are run once
\* each, in order, on the database the call started from is the malformed one
OnlyTheMalformedFails(f) ==
    /\ MalformedCount(f.stmts) = 1
    /\ FailuresOnce(start_db, f.stmts, 1) = 1

\* C3: for a script of N statements of which exactly one is malformed,
\* after execute_sql_file returns the effects of the other N-1 statements
\* are in the database and the failed-statement count is 1, for schema
\* files and for insert files.
C3_OneMalformedOneFailure ==
    (pcExec \in {"committed", "partial"} /\ file.readable /\ OnlyTheMalformedFails(file)) =>
        /\ pcExec = "partial"
        /\ failed_statements = 1
        /\ \A i \in 1..Len(file.stmts) : EffectIn(db, file.stmts[i])

\* the steps a call may take ("raised": the file could not be opened or
\* read, which is re-raised to the caller before anything is executed)
C4_Steps ==
    {<<"not_started", "raised">>, <<"not_started", "script">>,
     <<"not_started", "statements">>, <<"script", "committed">>,
     <<"script", "statements">>, <<"statements", "statements">>,
     <<"statements", "partial">>}

C4_Inv ==
    /\ (~file.isInsert => scriptResult = "none" /\ pcExec \notin {"script", "committed"})
    /\ (file.isInsert /\ pcExec \in {"statements", "partial"} => scriptResult = "failed")
    /\ (scriptResult = "ok" =>
            /\ pcExec = "committed"
            /\ si = 0 /\ successful_statements = 0 /\ failed_statements = 0)
    /\ (pcExec = "committed" => file.isInsert /\ scriptResult = "ok" /\ ~db.inTxn)

\* C4: per file the call goes not started -> executing -> committed, or
\* executing -> partially committed: an insert file is first run as one
\* script and, if that succeeds, no statement-by-statement pass runs; the
\* statement-by-statement pass runs for an insert file only after the
\* script failed; a schema file is never run as a script.
C4_StateMachine ==
    /\ []C4_Inv
    /\ [][/\ <<pcExec, pcExec'>> \in C4_Steps
          /\ (pcExec' = "script" => file.isInsert)
          /\ (pcExec = "not_started" /\ pcExec' = "statements" => ~file.isInsert)]_vars

C4_Witness ==
    /\ pcExec = "partial"
    /\ file.isInsert
    /\ scriptResult = "failed"
    /\ successful_statements >= 1
    /\ failed_statements >= 1

(***************************************************************************)
(* Specification of the dialect translator: one                            *)
(* convert_postgres_to_sqlite call on a text made of up to MaxPieces       *)
(* pieces.                                                                 *)
(***************************************************************************)
\* the bodies of the string literals of the input statements
LitBodies ==
    {<<"a">>, <<"a", ";", "b">>, <<"B", "O", "O", "L", "E", "A", "N">>, <<"B", "I", "G", "I", "N", "T">>, <<"V", "A", "R", "C", "H", "A", "R", "(", "1", ")">>, <<"D", "E", "C", "I", "M", "A", "L", "(", "1", ",", "2", ")">>,
     <<"C", "O", "M", "M", "E", "N", "T", " ", "O", "N", " ", "x", ";">>, <<"a", " ", "\n", " ", "b">>, <<"a", "\n", "-", "-", "b">>}

\* COMMENT ON COLUMN c IS '<description>';
CommentOnStmt(body) == <<"C", "O", "M", "M", "E", "N", "T", " ", "O", "N", " ", "c", " ", "I", "S", " ", Quote>> \o body \o <<Quote, ";", "\n">>

\* INSERT t '<value>';
InsertStmt(body) == <<"I", "N", "S", "E", "R", "T", " ", "t", " ", Quote>> \o body \o <<Quote, ";", "\n">>

\* statements and fragments of PostgreSQL text
Pieces ==
    {CommentOnStmt(b) : b \in {<<"a">>, <<"a", ";", "b">>}}
    \cup {InsertStmt(b) : b \in LitBodies}
    \cup {<<"B", "I", "G">>, <<"B", "O", "O", "L", "E", "A", "N">>, <<"I", "N", "T">>, <<"c", " ", "V", "A", "R", "C", "H", "A", "R", "(", "1", ")", ",">>, <<"c", " ", "D", "E", "C", "I", "M", "A", "L", "(", "1", ",", "2", ")", ",">>,
          <<"-", "-", " ">>, <<"\n">>, <<"C", "R", "E", "A", "T", "E", " ", "t", ";", "\n">>}

PgTexts == {Concat(ps) : ps \in UNION {[1..n -> Pieces] : n \in 0..MaxPieces}}

InitTranslate ==
    /\ pg_sql \in PgTexts
    /\ converted = <<>>
    /\ pcConvert = "start"
    /\ IdleCoerce
    /\ IdleInsert
    /\ IdleMain
    /\ IdleExec
    /\ IdleSetup
    /\ IdleQuery

ConvertPostgresToSqlite ==
    /\ pcConvert = "start"
    /\ \E r \in {convert_postgres_to_sqlite(pg_sql)} : converted' = r
    /\ pcConvert' = "done"
    /\ UNCHANGED <<pg_sql, coerceVars, insertVars, mainVars, execVars, setupVars, queryVars>>

NextTranslate == ConvertPostgresToSqlite

SpecTranslate == InitTranslate /\ [][NextTranslate]_vars

(***************************************************************************)
(* Claims about the dialect translator (checked under SpecTranslate).      *)
(***************************************************************************)
COMMENT_ON == <<"C", "O", "M", "M", "E", "N", "T", " ", "O", "N", " ">>

RECURSIVE CutCommentsFrom(_, _, _, _)
\* the text without its COMMENT ON statements, each cut from the keyword
\* through the ; that ends the statement (the first ; outside a string
\* literal); skipping says whether position i is inside such a statement
CutCommentsFrom(s, i, inLit, skipping) ==
    IF i > Len(s) THEN <<>>
    ELSE IF skipping
    THEN IF s[i] = ";" /\ ~inLit THEN CutCommentsFrom(s, i + 1, FALSE, FALSE)
         ELSE CutCommentsFrom(s, i + 1, IF s[i] = Quote THEN ~inLit ELSE inLit, TRUE)
    ELSE IF ~inLit /\ At(s, i, COMMENT_ON)
    THEN CutCommentsFrom(s, i + Len(COMMENT_ON), FALSE, TRUE)
    ELSE <<s[i]>> \o CutCommentsFrom(s, i + 1, IF s[i] = Quote THEN ~inLit ELSE inLit, FALSE)

CutComments(text) == CHOOSE r \in {CutCommentsFrom(s, 1, FALSE, FALSE) : s \in {text}} : TRUE

RECURSIVE KeywordInLiteral(_, _, _)
\* the keyword COMMENT ON occurs inside a string literal of s
KeywordInLiteral(s, i, inLit) ==
    IF i > Len(s) THEN FALSE
    ELSE \/ inLit /\ At(s, i, COMMENT_ON)
         \/ KeywordInLiteral(s, i + 1, IF s[i] = Quote THEN ~inLit ELSE inLit)

HasCommentOn(s) == \E i \in 1..Len(s) : At(s, i, COMMENT_ON)

\* C11: convert_postgres_to_sqlite removes every COMMENT ON statement
\* whole, from the keyword to the terminator that ends the statement: the
\* output is the translation of the input without its COMMENT ON
\* statements, so no part of one (its description included) remains.
C11_CommentOnFullyRemoved ==
    (pcConvert = "done" /\ HasCommentOn(pg_sql) /\ ~KeywordInLiteral(pg_sql, 1, FALSE)) =>
        converted = convert_postgres_to_sqlite(CutComments(pg_sql))

\* the orders in which the five rules can be applied
RuleOrders ==
    {o \in [1..Len(RuleOrder) -> {RuleOrder[i] : i \in 1..Len(RuleOrder)}] :
        \A i, j \in 1..Len(RuleOrder) : i # j => o[i] # o[j]}

\* the translation with the rules applied in the given order
ConvertInOrder(order, content) ==
    CHOOSE r \in {CleanLines(s) : s \in {ApplyRules(order, content)}} : TRUE

\* C12: the five substitution rules are order-independent: applying them
\* in any order gives the output of the order the code uses.
C12_RulesOrderIndependent ==
    pcConvert = "done" => \A order \in RuleOrders : ConvertInOrder(order, pg_sql) = converted

\* the values of the INSERT statements of a script, in order
InsertValues(text) ==
    LET parsed == [i \in 1..Len(ScriptStatements(text)) |->
                      ParseStmt(ScriptStatements(text)[i])]
        inserts == SelectSeq(parsed, LAMBDA p : p.kind = "insert")
    IN  [i \in 1..Len(inserts) |-> inserts[i].value]

\* a script of well-formed INSERT statements and nothing else
IsInsertScript(text) ==
    /\ \A i \in 1..Len(ScriptStatements(text)) :
          ParseStmt(ScriptStatements(text)[i]).kind \in {"insert", "empty"}
    /\ InsertValues(text) # <<>>

\* C17: convert_postgres_to_sqlite leaves the content of quoted string
\* literals unchanged: the translation of a script of INSERT statements is
\* a script of INSERT statements with the same string values.
C17_LiteralsUnchanged ==
    (pcConvert = "done" /\ IsInsertScript(pg_sql)) =>
        /\ IsInsertScript(converted)
        /\ InsertValues(converted) = InsertValues(pg_sql)

(***************************************************************************)
(* Further claims about the batch executor (checked under SpecExec).       *)
(***************************************************************************)
\* the database the statement-by-statement pass starts from
PassStartDb ==
    IF file.isInsert THEN ExecuteScript(start_db, sql_content).db ELSE start_db

\* the split pieces that reach the cursor
ExecutedPieces ==
    SelectSeq([i \in 1..Len(statements) |-> Strip(statements[i])],
              LAMBDA piece : piece # <<>> /\ ~StartsWith(piece, <<"-", "-">>))

C13_Inv ==
    /\ ~file.readable =>
            /\ pcExec \in {"not_started", "raised"}
            /\ db = start_db
            /\ scriptResult = "none"
            /\ si = 0 /\ successful_statements = 0 /\ failed_statements = 0
    /\ file.readable => pcExec # "raised"
    /\ pcExec = "partial" =>
            /\ si = Len(statements) + 1
            /\ failed_statements = FailuresOnce(PassStartDb, ExecutedPieces, 1)
            /\ successful_statements + failed_statements = Len(ExecutedPieces)

\* C13: a failure to open or read the file is re-raised and no statement
\* of the file is executed; a failure of one statement is swallowed: it is
\* counted, the loop goes on with the remaining statements and the call
\* returns normally.
C13_ReadRaisesStatementSwallowed ==
    /\ []C13_Inv
    /\ [][(pcExec = "statements" /\ si <= Len(statements)) =>
              (pcExec' = "statements" /\ si' = si + 1)]_vars

C13_Witness ==
    /\ pcExec = "partial"
    /\ ~file.isInsert
    /\ failed_statements >= 1
    /\ \E i \in 1..Len(file.stmts) : \E j \in (i + 1)..Len(file.stmts) :
          /\ Malformed(file.stmts[i])
          /\ ParseStmt(file.stmts[j]).kind = "insert"
          /\ EffectIn(db, file.stmts[j])
          /\ ~EffectIn(start_db, file.stmts[j])

(***************************************************************************)
(* The query catalog: class AIModelsQuery (src/db/query_examples.py).      *)
(* A row of ai_models is kept by the columns the queries look at.  age is  *)
(* the number of days between the row's publication date and the day of    *)
(* the call.                                                               *)
(***************************************************************************)
\* column values: SQL NULL, a text, a number
NullText == [null |-> TRUE, v |-> <<>>]

NullNum == [null |-> TRUE, v |-> 0]

Val(v) == [null |-> FALSE, v |-> v]

ModelRow(model, organization, year, age, parameters, domain, frontier_model, cost) ==
    [model |-> model, organization |-> organization, year |-> year, age |-> age,
     parameters |-> parameters, domain |-> domain, frontier_model |-> frontier_model,
     training_compute_cost_usd |-> cost]

RowPool ==
    {ModelRow(Val(<<"a">>), Val(<<"o">>), Val(2024), Val(100), Val(7), Val(<<"L", "a", "n", "g", "u", "a", "g", "e">>), Val(1), Val(5)),
     ModelRow(Val(<<"b">>), Val(<<"p">>), Val(2023), Val(500), Val(8), Val(<<"V", "i", "s", "i", "o", "n">>), Val(1), Val(6)),
     ModelRow(Val(<<"a", "b">>), Val(<<"o">>), Val(2022), Val(900), NullNum, Val(<<"L", "a", "n", "g", "u", "a", "g", "e">>), Val(0), NullNum),
     ModelRow(Val(<<"c">>), NullText, NullNum, NullNum, Val(9), NullText, Val(1), Val(4))}

Tables == UNION {[1..n -> RowPool] : n \in 0..MaxRows}

\* the calls of the catalog; by_domain is called with a domain, and
\* domain_distribution is get_models_by_domain() without one
Methods ==
    {"get_models_by_year", "get_largest_models", "get_models_by_organization",
     "get_frontier_models", "get_models_by_domain", "domain_distribution",
     "get_training_cost_analysis", "get_recent_models", "search_models"}

\* the methods whose signature has the parameter limit
HasLimitParam(m) ==
    m \in {"get_models_by_year", "get_largest_models", "get_models_by_organization",
           "get_frontier_models"}

\* the default of the parameter limit
DefaultLimit(m) == IF m = "get_frontier_models" THEN 20 ELSE 10

\* the LIMIT written in the query text of a method without the parameter;
\* -1 when the query has no LIMIT clause
FixedLimit(m) ==
    CASE m = "domain_distribution" -> 15
      [] m = "get_training_cost_analysis" -> 20
      [] m = "search_models" -> 50
      [] OTHER -> -1

\* value LIKE '%term%'
Like(value, term) ==
    /\ ~value.null
    /\ \E i \in 1..Len(value.v) : At(value.v, i, term)

\* the number of rows the query of method m selects before its LIMIT
Selected(m, t) ==
    LET rows == {i \in 1..Len(t) :
                   CASE m = "get_models_by_year" -> ~t[i].year.null
                     [] m = "get_largest_models" -> ~t[i].parameters.null
                     [] m = "get_models_by_organization" -> ~t[i].organization.null
                     [] m = "get_frontier_models" -> t[i].frontier_model = Val(1)
                     [] m = "get_models_by_domain" -> Like(t[i].domain, <<"L", "a", "n", "g">>)
                     [] m = "domain_distribution" -> ~t[i].domain.null
                     [] m = "get_training_cost_analysis" ->
                            ~t[i].training_compute_cost_usd.null
                     [] m = "get_recent_models" -> ~t[i].age.null /\ t[i].age.v <= 365
                     [] m = "search_models" ->
                            \/ Like(t[i].model, <<"a">>)
                            \/ Like(t[i].organization, <<"a">>)}
    IN  CASE m = "get_models_by_year" -> Cardinality({t[i].year : i \in rows})
          [] m = "get_models_by_organization" -> Cardinality({t[i].organization : i \in rows})
          [] m = "domain_distribution" -> Cardinality({t[i].domain : i \in rows})
          [] OTHER -> Cardinality(rows)

\* LIMIT n: at most n rows, and every row when n is negative
Limited(n, limit) == IF limit < 0 \/ n <= limit THEN n ELSE limit

\* the keyword argument limit of a call: absent or given with a value
NoLimitArg == [given |-> FALSE, value |-> 0]

LimitArg(k) == [given |-> TRUE, value |-> k]

\* the call m(limit=k.value), or m() when k is not given: the exception
\* raised and the number of rows returned
CallQuery(m, k, t) ==
    IF k.given /\ ~HasLimitParam(m)
    THEN [exc |-> "TypeError", rows |-> 0]
    ELSE LET limit == IF HasLimitParam(m)
                      THEN (IF k.given THEN k.value ELSE DefaultLimit(m))
                      ELSE FixedLimit(m)
         IN  [exc |-> "none", rows |-> Limited(Selected(m, t), limit)]

LimitArgs == {NoLimitArg} \cup {LimitArg(k) : k \in -1..MaxRows}

InitQuery ==
    /\ table \in Tables
    /\ method \in Methods
    /\ limit_arg \in LimitArgs
    /\ result = [exc |-> "none", rows |-> 0]
    /\ pcQuery = "start"
    /\ IdleCoerce
    /\ IdleInsert
    /\ IdleMain
    /\ IdleExec
    /\ IdleTranslate
    /\ IdleSetup

Query ==
    /\ pcQuery = "start"
    /\ \E r \in {CallQuery(method, limit_arg, table)} : result' = r
    /\ pcQuery' = "done"
    /\ UNCHANGED <<table, method, limit_arg, coerceVars, insertVars, mainVars, execVars,
                   translateVars, setupVars>>

NextQuery == Query

SpecQuery == InitQuery /\ [][NextQuery]_vars

\* C14: every query of the catalog accepts an optional row limit with a
\* fixed default and never returns more rows than that limit (a negative
\* limit is not a row limit and is left out).
C14_EveryQueryLimited ==
    (pcQuery = "done" /\ (limit_arg.given => limit_arg.value >= 0)) =>
        /\ result.exc = "none"
        /\ limit_arg.given => result.rows <= limit_arg.value

(***************************************************************************)
(* Database setup: find_sql_files and setup_database                       *)
(* (src/db/setup_database.py).  Each execute_sql_file call is one step.    *)
(***************************************************************************)
RECURSIVE RunPieces(_, _, _)
\* the loop over the split pieces, from piece i on
RunPieces(d, pieces, i) ==
    IF i > Len(pieces) THEN d
    ELSE CHOOSE res \in
            {IF Executable(piece) THEN RunPieces(CursorExecute(d, piece).db, pieces, i + 1)
                                  ELSE RunPieces(d, pieces, i + 1) :
                piece \in {Strip(pieces[i])}} : TRUE

\* execute_sql_file(cursor, file_path) as a whole: whether it raises, and
\* the database it leaves
execute_sql_file(d, f) ==
    IF ~f.readable THEN [raised |-> TRUE, db |-> d]
    ELSE CHOOSE res \in
            {IF UsesScript(f)
             THEN CHOOSE r \in
                     {IF s.ok THEN [raised |-> FALSE, db |-> s.db]
                              ELSE [raised |-> FALSE,
                                    db |-> RunPieces(s.db, Split(text, ";"), 1)] :
                         s \in {ExecuteScript(d, text)}} : TRUE
             ELSE [raised |-> FALSE, db |-> RunPieces(d, Split(text, ";"), 1)] :
                text \in {convert_postgres_to_sqlite(f.content)}} : TRUE

\* the characters of paths in code point order
PathChars == <<".", "_">> \o LowerSeq

CharRank(c) == CHOOSE k \in 1..Len(PathChars) : PathChars[k] = c

RECURSIVE PathLess(_, _)
\* p < q for Python strings
PathLess(p, q) ==
    IF q = <<>> THEN FALSE
    ELSE IF p = <<>> THEN TRUE
    ELSE IF Head(p) = Head(q) THEN PathLess(Tail(p), Tail(q))
    ELSE CharRank(Head(p)) < CharRank(Head(q))

\* file.endswith(suffix)
EndsWith(s, suffix) ==
    Len(s) >= Len(suffix) /\ Slice(s, Len(s) - Len(suffix) + 1, Len(s)) = suffix

\* a file of the data directory
DirFile(path, readable, stmts) ==
    [path |-> path, isInsert |-> EndsWith(path, <<"_", "i", "n", "s", "e", "r", "t", ".", "s", "q", "l">>), readable |-> readable,
     stmts |-> stmts, content |-> FileText(stmts, FALSE)]

SchemaPaths == {<<"a", ".", "s", "q", "l">>, <<"b", ".", "s", "q", "l">>}

InsertPaths == {<<"a", "_", "i", "n", "s", "e", "r", "t", ".", "s", "q", "l">>, <<"c", "_", "i", "n", "s", "e", "r", "t", ".", "s", "q", "l">>}

SchemaContents == {<<<<"C", "R", "E", "A", "T", "E", " ", "t">>>>, <<<<"C", "R", "E", "A", "T", "E", " ", "u">>, <<"X">>>>, <<<<"C", "R", "E", "A", "T", "E", " ", "t">>, <<"I", "N", "S", "E", "R", "T", " ", "t", " ", Quote, "a", Quote>>>>}

InsertContents == {<<<<"I", "N", "S", "E", "R", "T", " ", "t", " ", Quote, "a", Quote>>>>, <<<<"I", "N", "S", "E", "R", "T", " ", "t", " ", Quote, "b", Quote>>, <<"X">>>>}

\* what a path of the directory can hold: nothing, an unreadable file, a file
PathStates(paths, contents) ==
    [paths -> {<<"absent">>, <<"unreadable">>} \cup {<<"file", c>> : c \in contents}]

DirOf(held) ==
    {DirFile(p, held[p][1] = "file", IF held[p][1] = "file" THEN held[p][2] ELSE <<>>) :
        p \in {q \in DOMAIN held : held[q][1] # "absent"}}

DataDirs ==
    {DirOf(s) \cup DirOf(i) : s \in PathStates(SchemaPaths, SchemaContents),
                              i \in PathStates(InsertPaths, InsertContents)}

\* the files of a set in sorted path order
SortedByPath(files) ==
    SortSeq(CHOOSE q \in [1..Cardinality(files) -> files] :
                \A i, j \in 1..Cardinality(files) : i # j => q[i] # q[j],
            LAMBDA f, g : PathLess(f.path, g.path))

InitSetup ==
    /\ data_dir \in DataDirs
    /\ schema_files = <<>>
    /\ insert_files = <<>>
    /\ conn = EmptyDb
    /\ pcSetup = "start"
    /\ fileIdx = 0
    /\ executed = <<>>
    /\ commits = 0
    /\ IdleCoerce
    /\ IdleInsert
    /\ IdleMain
    /\ IdleExec
    /\ IdleTranslate
    /\ IdleQuery

\* find_sql_files, the early return when nothing was found, and
\* sqlite3.connect
SetupFind ==
    /\ pcSetup = "start"
    /\ schema_files' = SortedByPath({f \in data_dir : ~f.isInsert})
    /\ insert_files' = SortedByPath({f \in data_dir : f.isInsert})
    /\ pcSetup' = IF data_dir = {} THEN "returned" ELSE "schema"
    /\ fileIdx' = 1
    /\ UNCHANGED <<data_dir, conn, executed, commits, coerceVars, insertVars, mainVars,
                   execVars, translateVars, queryVars>>

\* one iteration of the loop over the schema files:
\* execute_sql_file(cursor, schema_file); when it raises, the handler
\* rolls back and re-raises
SetupSchemaFile ==
    /\ pcSetup = "schema"
    /\ fileIdx <= Len(schema_files)
    /\ executed' = Append(executed, schema_files[fileIdx].path)
    /\ \E r \in {execute_sql_file(conn, schema_files[fileIdx])} :
          IF r.raised
          THEN /\ conn' = Rollback(r.db)
               /\ pcSetup' = "raised"
               /\ UNCHANGED fileIdx
          ELSE /\ conn' = r.db
               /\ fileIdx' = fileIdx + 1
               /\ UNCHANGED pcSetup
    /\ UNCHANGED <<data_dir, schema_files, insert_files, commits, coerceVars, insertVars,
                   mainVars, execVars, translateVars, queryVars>>

\* conn.commit() after the schema files; the insert phase is skipped when
\* there is no insert file
SetupCommitSchema ==
    /\ pcSetup = "schema"
    /\ fileIdx > Len(schema_files)
    /\ conn' = Commit(conn)
    /\ commits' = commits + 1
    /\ pcSetup' = IF insert_files # <<>> THEN "insert" ELSE "stats"
    /\ fileIdx' = 1
    /\ UNCHANGED <<data_dir, schema_files, insert_files, executed, coerceVars, insertVars,
                   mainVars, execVars, translateVars, queryVars>>

\* one iteration of the loop over the insert files
SetupInsertFile ==
    /\ pcSetup = "insert"
    /\ fileIdx <= Len(insert_files)
    /\ executed' = Append(executed, insert_files[fileIdx].path)
    /\ \E r \in {execute_sql_file(conn, insert_files[fileIdx])} :
          IF r.raised
          THEN /\ conn' = Rollback(r.db)
               /\ pcSetup' = "raised"
               /\ UNCHANGED fileIdx
          ELSE /\ conn' = r.db
               /\ fileIdx' = fileIdx + 1
               /\ UNCHANGED pcSetup
    /\ UNCHANGED <<data_dir, schema_files, insert_files, commits, coerceVars, insertVars,
                   mainVars, execVars, translateVars, queryVars>>

\* conn.commit() after the insert files
SetupCommitInserts ==
    /\ pcSetup = "insert"
    /\ fileIdx > Len(insert_files)
    /\ conn' = Commit(conn)
    /\ commits' = commits + 1
    /\ pcSetup' = "stats"
    /\ UNCHANGED <<data_dir, schema_files, insert_files, fileIdx, executed, coerceVars,
                   insertVars, mainVars, execVars, translateVars, queryVars>>

\* the statistics queries and conn.close()
SetupStats ==
    /\ pcSetup = "stats"
    /\ pcSetup' = "done"
    /\ UNCHANGED <<data_dir, schema_files, insert_files, conn, fileIdx, executed, commits,
                   coerceVars, insertVars, mainVars, execVars, translateVars, queryVars>>

NextSetup ==
    \/ SetupFind
    \/ SetupSchemaFile
    \/ SetupCommitSchema
    \/ SetupInsertFile
    \/ SetupCommitInserts
    \/ SetupStats

SpecSetup == InitSetup /\ [][NextSetup]_vars

(***************************************************************************)
(* Claims about the database setup (checked under SpecSetup).              *)
(***************************************************************************)
Paths(files) == [i \in 1..Len(files) |-> files[i].path]

IsSortedByPath(files) ==
    \A i \in 1..(Len(files) - 1) : PathLess(files[i].path, files[i + 1].path)

RECURSIVE AfterFiles(_, _, _)
\* the database after the files from i on were executed, none raising
AfterFiles(d, files, i) ==
    IF i > Len(files) THEN d
    ELSE CHOOSE res \in {AfterFiles(r.db, files, i + 1) :
                            r \in {execute_sql_file(d, files[i])}} : TRUE

\* the database as committed after the schema phase
SchemaCommitted == Commit(AfterFiles(EmptyDb, schema_files, 1))

InsertPhaseFailed == pcSetup = "raised" /\ Len(executed) > Len(schema_files)

\* C15: setup_database executes every schema file before any insert file,
\* each group in sorted path order, and commits once after the schema files
\* and once after the insert files; when a fatal error stops the insert
\* phase, the rollback leaves the committed schema and no effect of any
\* insert file.
C15_TwoCommitsRollbackKeepsSchema ==
    pcSetup # "start" =>
        /\ IsSortedByPath(schema_files) /\ IsSortedByPath(insert_files)
        /\ \E n \in 0..(Len(schema_files) + Len(insert_files)) :
              executed = SubSeq(Paths(schema_files) \o Paths(insert_files), 1, n)
        /\ pcSetup = "done" => commits = (IF insert_files = <<>> THEN 1 ELSE 2)
        /\ InsertPhaseFailed =>
              /\ commits = 1
              /\ conn.tables = SchemaCommitted.tables
              /\ conn.rows = SchemaCommitted.rows

(***************************************************************************)
(* Claims about the fallback of the batch executor (checked under          *)
(* SpecExec).                                                              *)
(***************************************************************************)
\* how often row r is in rows
RowCount(rows, r) == Cardinality({i \in 1..Len(rows) : rows[i] = r})

\* how many statements of the file insert row r
InsertsOf(stmts, r) ==
    Cardinality({i \in 1..Len(stmts) :
                    /\ ParseStmt(stmts[i]).kind = "insert"
                    /\ ParseStmt(stmts[i]).table = r.table
                    /\ ParseStmt(stmts[i]).value = r.value})

\* C16: when execute_sql_file processes an insert file, each statement of
\* the file takes effect at most once, also when the whole-script attempt
\* failed partway and the fallback ran over the same content: no row is
\* inserted twice.
C16_InsertAtMostOnce ==
    (file.isInsert /\ pcExec \in {"committed", "partial"}) =>
        \A i \in 1..Len(db.rows) :
            RowCount(db.rows, db.rows[i])
                <= RowCount(start_db.rows, db.rows[i]) + InsertsOf(file.stmts, db.rows[i])

\* C18: in statement-by-statement execution every well-formed statement
\* of the file is executed as one whole statement, also when a string
\* literal holds a statement terminator: a file of N well-formed
\* statements yields N successful executions and 0 failures.
C18_WellFormedNeverSplit ==
    (pcExec = "partial" /\ FailuresOnce(start_db, file.stmts, 1) = 0) =>
        /\ successful_statements = Len(file.stmts)
        /\ failed_statements = 0

====
